---- MODULE Spec2Model ----
(***************************************************************************)
(* A model of driving_bot.py: one run of run_bot() against the booking     *)
(* site, the slot check of check_slots_on_page5() and the notifications    *)
(* of send_telegram_notification().  The booking site, the browser and the *)
(* notification channel are the environment: every call into them has the  *)
(* outcomes "ok", "timeout" (PlaywrightTimeoutError) or "error" (any other *)
(* exception), and the page the browser shows is the variable url.         *)
(***************************************************************************)
EXTENDS Integers, Sequences, FiniteSets, TLC

VARIABLES
    cfg,                        \* the five secrets read at lines 9-13
    escaping,                   \* send_telegram_notification: the locals of lines 55-57
    today,                      \* the calendar day datetime.now().date() reports
    pc,                         \* the statement run_bot() is at
    playwright,                 \* the sync_playwright() context: "off", "on", "stopped"
    browser,                    \* run_bot's local browser: "None", "open", "closed"
    page,                       \* TRUE once the local `page` is bound
    url,                        \* page.url, the page the browser shows
    i,                          \* the loop index of line 200 (1-based)
    slot_labels,                \* check_slots_on_page5: the labels of the page
    k,                          \* check_slots_on_page5: index of the label being read
    current_check_date,         \* check_slots_on_page5: line 87
    suitable_slots,             \* check_slots_on_page5: line 74
    slots_found_this_location,  \* line 219
    any_slot_found_overall,     \* line 129
    exc,                        \* the exception in flight: "none", "timeout", "error"
    outcome,                    \* "running", "ConfigAbort", "Success", "Failed"
    escaped,                    \* TRUE when an exception left run_bot()
    log,                        \* history: every call into the browser, with its result
    sent,                       \* history: every message handed to requests.post
    closeCalls,                 \* history: number of browser.close() calls
    perLocation,                \* history: the list each completed slot check returned
    lostSlots,                  \* history: what a slot check had collected when an
                                \* exception left it
    closedAt                    \* history: <<Len(log), Len(sent)>> at browser.close()

vars == <<cfg, escaping, today, pc, playwright, browser, page, url, i, slot_labels, k,
          current_check_date, suitable_slots, slots_found_this_location,
          any_slot_found_overall, exc, outcome, escaped, log, sent, closeCalls,
          lostSlots, closedAt, perLocation>>

\* Everything a plain page operation leaves alone.
pageOpFrame == <<cfg, escaping, today, playwright, browser, page, i, slot_labels, k,
                 current_check_date, suitable_slots, slots_found_this_location,
                 any_slot_found_overall, outcome, escaped, sent, closeCalls,
                 lostSlots, closedAt, perLocation>>

(***************************************************************************)
(* Bounds of the model.                                                    *)
(***************************************************************************)
MaxLabels == 2

(***************************************************************************)
(* Configuration and constants of the program.                             *)
(***************************************************************************)
SecretNames == {"TELEGRAM_BOT_TOKEN", "TELEGRAM_CHAT_ID", "USER_DL_NUMBER",
                "USER_CONTACT_NAME", "USER_CONTACT_PHONE"}

\* os.getenv gives None for an unset variable, "" for an empty one.
SecretValues == {"None", "empty", "set"}

\* Mutant of Truthy: `is not None` instead of truthiness, so "" counts as set.
TruthyNotNone(v) == v # "None"

\* Python truthiness of a secret: None and "" are falsy.
Truthy(v) == v = "set"

LOCATIONS_TO_CHECK == <<"SEQ BRISBANE NORTHSIDE", "SEQ BRISBANE SOUTHSIDE">>

TERMS_PAGE_URL_FRAGMENT == "TermsAndConditions.xhtml"
PAGE2_URL_FRAGMENT == "CleanBookingDE.xhtml"
PAGE3_URL_FRAGMENT == "LicenceDetailsConfirmation.xhtml"
PAGE4_URL_FRAGMENT == "LocationSelection.xhtml"
PAGE5_URL_FRAGMENT == "SlotSelection.xhtml"
START_URL == "WelcomeDrivingTest.xhtml"

\* Pages the browser can show: the six of the flow, the blank page of a new tab,
\* a page outside the flow, and a transient redirect on the way to Location Selection.
Urls == {"about:blank", START_URL, TERMS_PAGE_URL_FRAGMENT, PAGE2_URL_FRAGMENT,
         PAGE3_URL_FRAGMENT, PAGE4_URL_FRAGMENT, PAGE5_URL_FRAGMENT,
         "Other.xhtml", "Redirect.xhtml"}

(***************************************************************************)
(* Slot labels.  A label text is [ws, form, day]: ws says it carries       *)
(* surrounding whitespace, form is what it reads as, day its calendar day. *)
(* The forms, each with a text of it for 25 June 2025, 1:55 in the         *)
(* afternoon:                                                              *)
(*   "date"              Wednesday, 25 June 2025 01:55 PM                  *)
(*   "hour_unpadded"     Wednesday, 25 June 2025 1:55 PM                   *)
(*   "day_unpadded"      Thursday, 5 June 2025 01:55 PM                    *)
(*   "ampm_lower"        Wednesday, 25 June 2025 01:55 pm                  *)
(*   "names_abbreviated" Wed, 25 Jun 2025 01:55 PM                         *)
(*   "hour24"            Wednesday, 25 June 2025 13:55                     *)
(*   "separators"        25/06/2025 13:55                                  *)
(*   "junk"              any other text, "blank" the text without a        *)
(*                       character but whitespace                          *)
(***************************************************************************)
RefDates == {1, 2}

Labels ==
    {[ws |-> FALSE, form |-> "date", day |-> d] : d \in {0, 1, 14, 15}}
    \cup {[ws |-> TRUE, form |-> "date", day |-> 14],
          [ws |-> TRUE, form |-> "blank", day |-> 0],
          [ws |-> FALSE, form |-> "junk", day |-> 0]}

LabelLists == UNION {[1..n -> Labels] : n \in 0..MaxLabels}

\* The forms strptime takes with the format of line 97: %d and %I read one digit
\* or two, %p either case; %A and %B read full names only, %I no hour above 12.
ParsedForms == {"date", "hour_unpadded", "day_unpadded", "ampm_lower"}

\* Label texts of every form, for the slot check taken alone.
AnyLabels ==
    Labels
    \cup {[ws |-> FALSE, form |-> "hour_unpadded", day |-> 1],
          [ws |-> FALSE, form |-> "blank", day |-> 0]}
    \cup {[ws |-> FALSE, form |-> f, day |-> 14] :
             f \in {"day_unpadded", "ampm_lower", "names_abbreviated", "hour24",
                    "separators"}}

AnyLabelLists == UNION {[1..n -> AnyLabels] : n \in 0..MaxLabels}

\* str.strip() of line 93
strip(t) == [t EXCEPT !.ws = FALSE]

\* `not slot_text` of line 94
IsEmptyText(t) == t.form = "blank" /\ ~t.ws

\* datetime.strptime(slot_text, "%A, %d %B %Y %I:%M %p") of line 97:
\* TRUE when it returns a datetime, FALSE when it raises ValueError.
strptime_ok(t) == t.form \in ParsedForms /\ ~t.ws

\* Mutant of InWindow: timedelta(days=14) at line 90.
InWindowFourteenDaysOn(d, start_date_window) ==
    start_date_window <= d /\ d <= start_date_window + 14

\* The window test of line 98, on slot_datetime_obj.date().
InWindow(d, start_date_window) ==
    start_date_window <= d /\ d <= start_date_window + 13

\* Mutant of EvaluateLabel: the text is collected as read, before strip().
EvaluateLabelKeepsRawText(text, found, start_date_window) ==
    LET slot_text == strip(text) IN
    IF IsEmptyText(slot_text) THEN found
    ELSE IF strptime_ok(slot_text) /\ InWindow(slot_text.day, start_date_window)
         THEN Append(found, text)
         ELSE found

\* The body of the loop of lines 93-102 for one label text, given the list so far.
EvaluateLabel(text, found, start_date_window) ==
    LET slot_text == strip(text) IN
    IF IsEmptyText(slot_text) THEN found
    ELSE IF strptime_ok(slot_text) /\ InWindow(slot_text.day, start_date_window)
         THEN Append(found, slot_text)
         ELSE found

(***************************************************************************)
(* send_telegram_notification(), lines 52-57: the text that is transmitted. *)
(* A text is a sequence of characters.                                     *)
(***************************************************************************)
\* Mutant of md_reserved: the backslash added to the end of the list.
md_reserved_and_backslash ==
    <<"_", "*", "[", "]", "(", ")", "~", "GRAVE", ">", "#", "+", "-", "=", "|", "{", "}",
      ".", "!", "\\">>

\* line 54; the grave accent, which a string of this language cannot hold, is
\* written "GRAVE".
md_reserved ==
    <<"_", "*", "[", "]", "(", ")", "~", "GRAVE", ">", "#", "+", "-", "=", "|", "{", "}",
      ".", "!">>

\* str.replace(char, '\\' + char): every occurrence, left to right.
RECURSIVE Replace(_, _)
Replace(s, c) ==
    IF s = <<>> THEN <<>>
    ELSE (IF Head(s) = c THEN <<"\\", c>> ELSE <<Head(s)>>) \o Replace(Tail(s), c)

\* The locals of send_telegram_notification outside a call of it.
NotEscaping == [message |-> <<>>, escaped_message |-> <<>>, char |-> 0]

(***************************************************************************)
(* History records.                                                        *)
(***************************************************************************)
Entry(op, res, u) == [op |-> op, loc |-> i, res |-> res, url |-> u]

\* send_telegram_notification(message): without both channel secrets nothing is
\* posted; otherwise one requests.post is made, delivered or not.
send_telegram_notification(message, delivered) ==
    IF ~Truthy(cfg["TELEGRAM_BOT_TOKEN"]) \/ ~Truthy(cfg["TELEGRAM_CHAT_ID"])
    THEN sent
    ELSE Append(sent, [message EXCEPT !.ok = delivered])

Message(kind, loc, slots, lastUrl) ==
    [kind |-> kind, loc |-> loc, slots |-> slots, url |-> lastUrl, ok |-> FALSE]

(***************************************************************************)
(* Exceptions.  An exception raised in the try body of lines 133-240 goes  *)
(* to the handler of line 242 when it is a PlaywrightTimeoutError and to   *)
(* the handler of line 247 otherwise.                                      *)
(***************************************************************************)
Handler(kind) == IF kind = "timeout" THEN "except_timeout" ELSE "except_exception"

Throw(op, kind) ==
    /\ log' = Append(log, Entry(op, kind, url))
    /\ exc' = kind
    /\ pc' = Handler(kind)

Fails(op) == \E kind \in {"timeout", "error"} : Throw(op, kind)

Succeeds(op, u, next) ==
    /\ log' = Append(log, Entry(op, "ok", u))
    /\ exc' = exc
    /\ pc' = next

\* locator(...).click(): the control exists only on the page that owns it; the site
\* answers the click by showing one of dests.
Click(here, op, owner, dests, next) ==
    /\ pc = here
    /\ \/ /\ url = owner
          /\ \E d \in dests : url' = d /\ Succeeds(op, d, next)
       \/ Fails(op) /\ url' = url
    /\ UNCHANGED pageOpFrame

\* page.wait_for_url("**/fragment**"): returns once the URL matches; a transient
\* redirect may still arrive at Location Selection, any other page never matches.
WaitForUrl(here, op, fragment, next) ==
    /\ pc = here
    /\ \/ /\ \/ url = fragment
             \/ url = "Redirect.xhtml" /\ fragment = PAGE4_URL_FRAGMENT
          /\ url' = fragment
          /\ Succeeds(op, fragment, next)
       \/ Fails(op) /\ url' = url
    /\ UNCHANGED pageOpFrame

\* fill(), wait_for(): an operation on a control of the owner page, no navigation.
OnPage(here, op, owner, next) ==
    /\ pc = here
    /\ \/ url = owner /\ Succeeds(op, url, next)
       \/ Fails(op)
    /\ url' = url
    /\ UNCHANGED pageOpFrame

\* page.wait_for_timeout(ms): a pause; it cannot time out.
Pause(here, op, next) ==
    /\ pc = here
    /\ \/ Succeeds(op, url, next)
       \/ Throw(op, "error")
    /\ url' = url
    /\ UNCHANGED pageOpFrame

(***************************************************************************)
(* run_bot(), lines 111-139: configuration check and session start-up.     *)
(***************************************************************************)
Init ==
    /\ cfg \in [SecretNames -> SecretValues]
    /\ today \in RefDates
    /\ pc = "check_secrets"
    /\ playwright = "off"
    /\ browser = "None"
    /\ page = FALSE
    /\ url = "about:blank"
    /\ i = 0
    /\ slot_labels = <<>>
    /\ k = 0
    /\ current_check_date = 0
    /\ suitable_slots = <<>>
    /\ slots_found_this_location = <<>>
    /\ any_slot_found_overall = FALSE
    /\ exc = "none"
    /\ outcome = "running"
    /\ escaped = FALSE
    /\ log = <<>>
    /\ sent = <<>>
    /\ closeCalls = 0
    /\ perLocation = <<>>
    /\ lostSlots = <<>>
    /\ closedAt = <<>>
    /\ escaping = NotEscaping

AllSecretsSet == \A s \in SecretNames : Truthy(cfg[s])

\* lines 115-121
CheckSecrets ==
    /\ pc = "check_secrets"
    /\ IF ~AllSecretsSet
       THEN /\ pc' = "done"
            /\ outcome' = "ConfigAbort"
            /\ IF Truthy(cfg["TELEGRAM_BOT_TOKEN"]) /\ Truthy(cfg["TELEGRAM_CHAT_ID"])
               THEN \E delivered \in BOOLEAN :
                        sent' = send_telegram_notification(
                                    Message("config", 0, <<>>, "none"), delivered)
               ELSE sent' = sent
       ELSE /\ pc' = "setlocale"
            /\ UNCHANGED <<outcome, sent>>
    /\ UNCHANGED <<cfg, escaping, today, playwright, browser, page, url, i, slot_labels, k,
                   current_check_date, suitable_slots, slots_found_this_location,
                   any_slot_found_overall, exc, escaped, log, closeCalls,
                   lostSlots, closedAt, perLocation>>

\* lines 123-130: locale.setlocale either takes effect or raises locale.Error, which
\* is caught; neither changes what run_bot does next.
SetLocale ==
    /\ pc = "setlocale"
    /\ any_slot_found_overall' = FALSE
    /\ browser' = "None"
    /\ pc' = "sync_playwright"
    /\ UNCHANGED <<cfg, escaping, today, playwright, page, url, i, slot_labels, k,
                   current_check_date, suitable_slots, slots_found_this_location,
                   exc, outcome, escaped, log, sent, closeCalls,
                   lostSlots, closedAt, perLocation>>

\* line 132: entering the context manager; a failure here is outside the try.
SyncPlaywright ==
    /\ pc = "sync_playwright"
    /\ \/ /\ playwright' = "on"
          /\ pc' = "launch"
          /\ UNCHANGED <<exc, escaped>>
       \/ /\ playwright' = "off"
          /\ exc' = "error"
          /\ escaped' = TRUE
          /\ pc' = "done"
    /\ UNCHANGED <<cfg, escaping, today, browser, page, url, i, slot_labels, k,
                   current_check_date, suitable_slots, slots_found_this_location,
                   any_slot_found_overall, outcome, log, sent, closeCalls,
                   lostSlots, closedAt, perLocation>>

\* line 134
Launch ==
    /\ pc = "launch"
    /\ \/ browser' = "open" /\ Succeeds("launch", url, "new_context")
       \/ browser' = browser /\ Fails("launch")
    /\ UNCHANGED <<cfg, escaping, today, playwright, page, url, i, slot_labels, k,
                   current_check_date, suitable_slots, slots_found_this_location,
                   any_slot_found_overall, outcome, escaped, sent, closeCalls,
                   lostSlots, closedAt, perLocation>>

\* lines 135-137
NewContext ==
    /\ pc = "new_context"
    /\ \/ Succeeds("new_context", url, "new_page")
       \/ Throw("new_context", "error")
    /\ url' = url
    /\ UNCHANGED pageOpFrame

\* line 138
NewPage ==
    /\ pc = "new_page"
    /\ \/ page' = TRUE /\ Succeeds("new_page", url, "goto")
       \/ page' = page /\ Throw("new_page", "error")
    /\ UNCHANGED <<cfg, escaping, today, playwright, browser, url, i, slot_labels, k,
                   current_check_date, suitable_slots, slots_found_this_location,
                   any_slot_found_overall, outcome, escaped, sent, closeCalls,
                   lostSlots, closedAt, perLocation>>

(***************************************************************************)
(* run_bot(), lines 140-198: Welcome, Terms, Details, Confirmation.        *)
(***************************************************************************)
\* line 141
Goto ==
    /\ pc = "goto"
    /\ \/ url' = START_URL /\ Succeeds("goto", START_URL, "click_continue1")
       \/ url' = url /\ Fails("goto")
    /\ UNCHANGED pageOpFrame

\* line 142: the site answers with the Terms page, or skips it, or shows neither.
ClickContinuePage1 ==
    Click("click_continue1", "click_continue1", START_URL,
          {TERMS_PAGE_URL_FRAGMENT, PAGE2_URL_FRAGMENT, "Other.xhtml"}, "wait_terms")

\* Mutant of WaitTerms: a wait that accepts the Details page too and goes on to
\* fill it.
WaitTermsTolerant ==
    \/ WaitForUrl("wait_terms", "wait_terms", TERMS_PAGE_URL_FRAGMENT, "wait_accept")
    \/ /\ pc = "wait_terms"
       /\ url = PAGE2_URL_FRAGMENT
       /\ url' = url
       /\ Succeeds("wait_terms", url, "fill_dl")
       /\ UNCHANGED pageOpFrame

\* lines 146-166: TERMS_AGREE_CHECKBOX_SELECTOR is None (line 21), so the checkbox
\* step of lines 150-164 never runs and only the wait of line 146 acts.
WaitTerms ==
    WaitForUrl("wait_terms", "wait_terms", TERMS_PAGE_URL_FRAGMENT, "wait_accept")

\* lines 169-170
WaitAccept ==
    OnPage("wait_accept", "wait_accept", TERMS_PAGE_URL_FRAGMENT, "click_accept")

\* line 172
ClickAccept ==
    Click("click_accept", "click_accept", TERMS_PAGE_URL_FRAGMENT,
          {PAGE2_URL_FRAGMENT, "Other.xhtml"}, "wait_page2")

\* line 176
WaitPage2 == WaitForUrl("wait_page2", "wait_page2", PAGE2_URL_FRAGMENT, "fill_dl")

\* lines 179-181
FillDlNumber == OnPage("fill_dl", "fill_dl", PAGE2_URL_FRAGMENT, "fill_name")

FillContactName == OnPage("fill_name", "fill_name", PAGE2_URL_FRAGMENT, "fill_phone")

FillContactPhone == OnPage("fill_phone", "fill_phone", PAGE2_URL_FRAGMENT, "click_test_type")

\* lines 184-186
ClickTestTypeTrigger ==
    OnPage("click_test_type", "click_test_type", PAGE2_URL_FRAGMENT, "click_car")

\* line 188
ClickTestTypeCar == OnPage("click_car", "click_car", PAGE2_URL_FRAGMENT, "pause2")

\* line 189
PausePage2 == Pause("pause2", "pause2", "click_continue2")

\* line 190
ClickContinuePage2 ==
    Click("click_continue2", "click_continue2", PAGE2_URL_FRAGMENT,
          {PAGE3_URL_FRAGMENT, "Other.xhtml"}, "wait_page3")

\* Mutant of WaitPage3: a timeout of the wait is passed over and the Continue
\* button of line 194 is clicked all the same.
WaitPage3TimeoutIgnored ==
    /\ pc = "wait_page3"
    /\ \/ /\ url = PAGE3_URL_FRAGMENT
          /\ Succeeds("wait_page3", url, "click_continue3")
       \/ /\ log' = Append(log, Entry("wait_page3", "timeout", url))
          /\ exc' = exc
          /\ pc' = "click_continue3"
    /\ url' = url
    /\ UNCHANGED pageOpFrame

\* line 193
WaitPage3 == WaitForUrl("wait_page3", "wait_page3", PAGE3_URL_FRAGMENT, "click_continue3")

\* line 194
ClickContinuePage3 ==
    Click("click_continue3", "click_continue3", PAGE3_URL_FRAGMENT,
          {PAGE4_URL_FRAGMENT, "Other.xhtml"}, "wait_page4")

\* line 197
WaitPage4 == WaitForUrl("wait_page4", "wait_page4", PAGE4_URL_FRAGMENT, "for_location")

(***************************************************************************)
(* run_bot(), lines 200-240: the loop over LOCATIONS_TO_CHECK.             *)
(***************************************************************************)
\* Mutant of ForLocation: the summary message of line 240 is sent when no location
\* had a slot.
ForLocationWithSummary ==
    /\ pc = "for_location"
    /\ IF i < Len(LOCATIONS_TO_CHECK)
       THEN /\ i' = i + 1
            /\ pc' = "check_url"
            /\ UNCHANGED <<outcome, sent>>
       ELSE /\ i' = i
            /\ pc' = "finally"
            /\ outcome' = "Success"
            /\ IF ~any_slot_found_overall
               THEN \E delivered \in BOOLEAN :
                      sent' = Append(sent, [kind |-> "summary", loc |-> 0, slots |-> <<>>,
                                            url |-> "none", ok |-> delivered])
               ELSE sent' = sent
    /\ UNCHANGED <<cfg, escaping, today, playwright, browser, page, url, slot_labels, k,
                   current_check_date, suitable_slots, slots_found_this_location,
                   any_slot_found_overall, exc, escaped, log, closeCalls,
                   lostSlots, closedAt, perLocation>>

\* line 200: the next location, or the end of the loop (lines 237-240), where the
\* try body completes.
ForLocation ==
    /\ pc = "for_location"
    /\ IF i < Len(LOCATIONS_TO_CHECK)
       THEN /\ i' = i + 1
            /\ pc' = "check_url"
            /\ outcome' = outcome
       ELSE /\ i' = i
            /\ pc' = "finally"
            /\ outcome' = "Success"
    /\ UNCHANGED <<cfg, escaping, today, playwright, browser, page, url, slot_labels, k,
                   current_check_date, suitable_slots, slots_found_this_location,
                   any_slot_found_overall, exc, escaped, log, sent, closeCalls,
                   lostSlots, closedAt, perLocation>>

\* The site may redirect away from Location Selection before the loop body looks.
SiteRedirect ==
    /\ pc = "check_url"
    /\ url = PAGE4_URL_FRAGMENT
    /\ url' = "Redirect.xhtml"
    /\ UNCHANGED <<cfg, escaping, today, pc, playwright, browser, page, i, slot_labels, k,
                   current_check_date, suitable_slots, slots_found_this_location,
                   any_slot_found_overall, exc, outcome, escaped, log, sent, closeCalls,
                   lostSlots, closedAt, perLocation>>

\* Mutant of CheckUrl: the URL is read but the region control is used whatever it
\* is (no wait of line 208).
CheckUrlNoWait ==
    /\ pc = "check_url"
    /\ log' = Append(log, Entry("page_url", "ok", url))
    /\ pc' = "click_region"
    /\ UNCHANGED <<cfg, escaping, today, playwright, browser, page, url, i, slot_labels, k,
                   current_check_date, suitable_slots, slots_found_this_location,
                   any_slot_found_overall, exc, outcome, escaped, sent, closeCalls,
                   lostSlots, closedAt, perLocation>>

\* lines 206-207: the test on page.url
CheckUrl ==
    /\ pc = "check_url"
    /\ log' = Append(log, Entry("page_url", "ok", url))
    /\ pc' = IF url # PAGE4_URL_FRAGMENT THEN "wait_page4_again" ELSE "click_region"
    /\ UNCHANGED <<cfg, escaping, today, playwright, browser, page, url, i, slot_labels, k,
                   current_check_date, suitable_slots, slots_found_this_location,
                   any_slot_found_overall, exc, outcome, escaped, sent, closeCalls,
                   lostSlots, closedAt, perLocation>>

\* line 208
WaitPage4Again ==
    WaitForUrl("wait_page4_again", "wait_page4_again", PAGE4_URL_FRAGMENT, "click_region")

\* line 211
ClickRegionTrigger ==
    OnPage("click_region", "click_region", PAGE4_URL_FRAGMENT, "click_location")

\* line 212
ClickLocationOption ==
    OnPage("click_location", "click_location", PAGE4_URL_FRAGMENT, "pause4")

\* line 213
PausePage4 == Pause("pause4", "pause4", "click_continue4")

\* line 214
ClickContinuePage4 ==
    Click("click_continue4", "click_continue4", PAGE4_URL_FRAGMENT,
          {PAGE5_URL_FRAGMENT, "Other.xhtml"}, "wait_page5")

\* line 217
WaitPage5 == WaitForUrl("wait_page5", "wait_page5", PAGE5_URL_FRAGMENT, "table_wait")

(***************************************************************************)
(* check_slots_on_page5(), lines 72-108, called at line 219.               *)
(***************************************************************************)
\* `return suitable_slots` (lines 80, 85, 108) into line 219; the locals of the
\* call are gone with it.
ReturnSlots(found) ==
    /\ slots_found_this_location' = found
    /\ perLocation' = Append(perLocation, found)
    /\ suitable_slots' = <<>>
    /\ slot_labels' = <<>>
    /\ k' = 0
    /\ current_check_date' = 0
    /\ pc' = "if_slots"

\* Mutant of TableWait: the wait of line 77 outside any try, its timeout ending
\* the run like every other.
TableWaitFatal ==
    /\ pc = "table_wait"
    /\ \/ /\ url = PAGE5_URL_FRAGMENT
          /\ Succeeds("table_wait", url, "all_labels")
       \/ Fails("table_wait")
    /\ suitable_slots' = <<>>
    /\ UNCHANGED <<cfg, escaping, today, playwright, browser, page, url, i, slot_labels, k,
                   current_check_date, slots_found_this_location,
                   any_slot_found_overall, outcome, escaped, sent, closeCalls,
                   lostSlots, closedAt,
                   perLocation>>

\* lines 74-80: a table that does not show up in time means no slots.
TableWait ==
    /\ pc = "table_wait"
    /\ \/ /\ url = PAGE5_URL_FRAGMENT
          /\ Succeeds("table_wait", url, "all_labels")
          /\ suitable_slots' = <<>>
          /\ UNCHANGED <<slots_found_this_location, slot_labels, k, current_check_date,
                         perLocation>>
       \/ /\ log' = Append(log, Entry("table_wait", "timeout", url))
          /\ exc' = exc
          /\ ReturnSlots(<<>>)
       \/ /\ Throw("table_wait", "error")
          /\ suitable_slots' = <<>>
          /\ UNCHANGED <<slots_found_this_location, slot_labels, k, current_check_date,
                         perLocation>>
    /\ UNCHANGED <<cfg, escaping, today, playwright, browser, page, url, i,
                   any_slot_found_overall, outcome, escaped, sent, closeCalls,
                   lostSlots, closedAt>>

\* lines 82-90: the labels now on the page, one of lists, and the window for them.
AllLabelsFrom(lists) ==
    /\ pc = "all_labels"
    /\ \/ \E ls \in lists :
            /\ log' = Append(log, Entry("all_labels", "ok", url))
            /\ exc' = exc
            /\ IF ls = <<>>
               THEN ReturnSlots(suitable_slots)
               ELSE /\ slot_labels' = ls
                    /\ current_check_date' = today
                    /\ k' = 1
                    /\ pc' = "read_label"
                    /\ UNCHANGED <<slots_found_this_location, suitable_slots,
                                   perLocation>>
       \/ /\ Throw("all_labels", "error")
          /\ UNCHANGED <<slot_labels, current_check_date, k, slots_found_this_location,
                         suitable_slots, perLocation>>
    /\ UNCHANGED <<cfg, escaping, today, playwright, browser, page, url, i,
                   any_slot_found_overall, outcome, escaped, sent, closeCalls,
                   lostSlots, closedAt>>

\* line 82 in a run of run_bot
AllLabels == AllLabelsFrom(LabelLists)

\* Mutant of ReadLabel: the read of line 93 inside the try of line 95, a timeout
\* of it skipping the label.
ReadLabelSkipsTimeout ==
    /\ pc = "read_label"
    /\ k <= Len(slot_labels)
    /\ \/ /\ suitable_slots' =
                EvaluateLabel(slot_labels[k], suitable_slots, current_check_date)
          /\ Succeeds("text_content", url, "read_label")
       \/ /\ suitable_slots' = suitable_slots
          /\ log' = Append(log, Entry("text_content", "timeout", url))
          /\ exc' = exc
          /\ pc' = pc
    /\ k' = k + 1
    /\ UNCHANGED <<cfg, escaping, today, playwright, browser, page, url, i, slot_labels,
                   current_check_date, slots_found_this_location,
                   any_slot_found_overall, outcome, escaped, sent, closeCalls,
                   lostSlots, closedAt,
                   perLocation>>

\* Mutant of ReadLabel: no `except ValueError` at line 100, so a text strptime
\* rejects ends the run.
ReadLabelParseErrorFatal ==
    /\ pc = "read_label"
    /\ k <= Len(slot_labels)
    /\ \/ /\ IsEmptyText(strip(slot_labels[k])) \/ strptime_ok(strip(slot_labels[k]))
          /\ suitable_slots' =
                EvaluateLabel(slot_labels[k], suitable_slots, current_check_date)
          /\ k' = k + 1
          /\ Succeeds("text_content", url, "read_label")
          /\ UNCHANGED <<slot_labels, current_check_date, lostSlots>>
       \/ /\ \/ Fails("text_content")
             \/ /\ ~IsEmptyText(strip(slot_labels[k]))
                /\ ~strptime_ok(strip(slot_labels[k]))
                /\ Throw("strptime", "error")
          /\ lostSlots' = suitable_slots
          /\ suitable_slots' = <<>>
          /\ slot_labels' = <<>>
          /\ k' = 0
          /\ current_check_date' = 0
    /\ UNCHANGED <<cfg, escaping, today, playwright, browser, page, url, i,
                   slots_found_this_location, any_slot_found_overall, outcome, escaped,
                   sent, closeCalls, closedAt, perLocation>>

\* Mutant of ReadLabel: a timeout of the read ends the loop and the slots
\* collected so far are returned.
ReadLabelTimeoutReturnsPartial ==
    /\ pc = "read_label"
    /\ k <= Len(slot_labels)
    /\ \/ /\ suitable_slots' =
                EvaluateLabel(slot_labels[k], suitable_slots, current_check_date)
          /\ k' = k + 1
          /\ Succeeds("text_content", url, "read_label")
          /\ UNCHANGED <<slot_labels, current_check_date, lostSlots,
                         slots_found_this_location, perLocation>>
       \/ /\ log' = Append(log, Entry("text_content", "timeout", url))
          /\ exc' = exc
          /\ ReturnSlots(suitable_slots)
          /\ lostSlots' = lostSlots
       \/ /\ Throw("text_content", "error")
          /\ lostSlots' = suitable_slots
          /\ suitable_slots' = <<>>
          /\ slot_labels' = <<>>
          /\ k' = 0
          /\ current_check_date' = 0
          /\ UNCHANGED <<slots_found_this_location, perLocation>>
    /\ UNCHANGED <<cfg, escaping, today, playwright, browser, page, url, i,
                   any_slot_found_overall, outcome, escaped, sent, closeCalls, closedAt>>

\* lines 92-102: one turn of the loop over the labels; an exception of the read
\* leaves the call, whose locals are gone with it.
ReadLabel ==
    /\ pc = "read_label"
    /\ k <= Len(slot_labels)
    /\ \/ /\ suitable_slots' =
                EvaluateLabel(slot_labels[k], suitable_slots, current_check_date)
          /\ k' = k + 1
          /\ Succeeds("text_content", url, "read_label")
          /\ UNCHANGED <<slot_labels, current_check_date, lostSlots>>
       \/ /\ Fails("text_content")
          /\ lostSlots' = suitable_slots
          /\ suitable_slots' = <<>>
          /\ slot_labels' = <<>>
          /\ k' = 0
          /\ current_check_date' = 0
    /\ UNCHANGED <<cfg, escaping, today, playwright, browser, page, url, i,
                   slots_found_this_location, any_slot_found_overall, outcome, escaped,
                   sent, closeCalls, closedAt, perLocation>>

\* lines 104-108
EndOfLabels ==
    /\ pc = "read_label"
    /\ k > Len(slot_labels)
    /\ ReturnSlots(suitable_slots)
    /\ UNCHANGED <<cfg, escaping, today, playwright, browser, page, url, i,
                   any_slot_found_overall, exc, outcome, escaped, log, sent, closeCalls,
                   lostSlots, closedAt>>

\* Mutant of AfterLocation: the change-location step after the last location too.
AfterLocationAlwaysChange == "click_change"

\* line 232: the change-location step runs for every location but the last.
AfterLocation == IF i < Len(LOCATIONS_TO_CHECK) THEN "click_change" ELSE "for_location"

\* Mutant of IfSlots: `is not None` instead of truthiness at line 221, so an empty
\* list is announced too.
IfSlotsAnnouncesEmpty ==
    /\ pc = "if_slots"
    /\ any_slot_found_overall' = TRUE
    /\ \E delivered \in BOOLEAN :
         sent' = send_telegram_notification(
                    Message("slots", i, slots_found_this_location, "none"), delivered)
    /\ pc' = AfterLocation
    /\ UNCHANGED <<cfg, escaping, today, playwright, browser, page, url, i, slot_labels, k,
                   current_check_date, suitable_slots, slots_found_this_location,
                   exc, outcome, escaped, log, closeCalls,
                   lostSlots, closedAt, perLocation>>

\* Mutant of IfSlots: only the first location with slots is announced.
IfSlotsAnnouncesFirstOnly ==
    /\ pc = "if_slots"
    /\ IF slots_found_this_location # <<>> /\ ~any_slot_found_overall
       THEN /\ any_slot_found_overall' = TRUE
            /\ \E delivered \in BOOLEAN :
                 sent' = send_telegram_notification(
                            Message("slots", i, slots_found_this_location, "none"),
                            delivered)
       ELSE UNCHANGED <<any_slot_found_overall, sent>>
    /\ pc' = AfterLocation
    /\ UNCHANGED <<cfg, escaping, today, playwright, browser, page, url, i, slot_labels, k,
                   current_check_date, suitable_slots, slots_found_this_location,
                   exc, outcome, escaped, log, closeCalls,
                   lostSlots, closedAt, perLocation>>

\* Mutant of IfSlots: a message that was not delivered is posted a second time.
IfSlotsRetriesUndelivered ==
    /\ pc = "if_slots"
    /\ IF slots_found_this_location # <<>>
       THEN /\ any_slot_found_overall' = TRUE
            /\ \E delivered \in BOOLEAN :
                 LET m == Message("slots", i, slots_found_this_location, "none")
                     first == send_telegram_notification(m, FALSE)
                 IN  sent' = IF delivered
                             THEN send_telegram_notification(m, TRUE)
                             ELSE Append(first, m)
       ELSE UNCHANGED <<any_slot_found_overall, sent>>
    /\ pc' = AfterLocation
    /\ UNCHANGED <<cfg, escaping, today, playwright, browser, page, url, i, slot_labels, k,
                   current_check_date, suitable_slots, slots_found_this_location,
                   exc, outcome, escaped, log, closeCalls,
                   lostSlots, closedAt, perLocation>>

\* lines 221-232: one message for a location with slots; its delivery result is
\* not looked at.
IfSlots ==
    /\ pc = "if_slots"
    /\ IF slots_found_this_location # <<>>
       THEN /\ any_slot_found_overall' = TRUE
            /\ \E delivered \in BOOLEAN :
                 sent' = send_telegram_notification(
                            Message("slots", i, slots_found_this_location, "none"),
                            delivered)
       ELSE UNCHANGED <<any_slot_found_overall, sent>>
    /\ pc' = AfterLocation
    /\ UNCHANGED <<cfg, escaping, today, playwright, browser, page, url, i, slot_labels, k,
                   current_check_date, suitable_slots, slots_found_this_location,
                   exc, outcome, escaped, log, closeCalls,
                   lostSlots, closedAt, perLocation>>

\* line 234
ClickChangeLocation ==
    Click("click_change", "click_change", PAGE5_URL_FRAGMENT,
          {PAGE4_URL_FRAGMENT, "Other.xhtml"}, "wait_change")

\* line 235
WaitChangeLocation ==
    WaitForUrl("wait_change", "wait_change", PAGE4_URL_FRAGMENT, "for_location")

(***************************************************************************)
(* run_bot(), lines 242-257: the handlers, the teardown, the way out.      *)
(***************************************************************************)
\* `if 'page' in locals() and page and page.url` of lines 244 and 251
LastUrl == IF page THEN url ELSE "none"

\* Mutant of Diagnose: only the timeout handler dispatches its message.
DiagnoseTimeoutsOnly(here, kind) ==
    /\ pc = here
    /\ outcome' = "Failed"
    /\ exc' = "none"
    /\ log' = IF page THEN Append(log, Entry("page_url", "ok", url)) ELSE log
    /\ IF kind = "timeout"
       THEN \E delivered \in BOOLEAN :
              sent' = send_telegram_notification(Message(kind, i, <<>>, LastUrl), delivered)
       ELSE sent' = sent
    /\ pc' = "finally"
    /\ UNCHANGED <<cfg, escaping, today, playwright, browser, page, url, i, slot_labels, k,
                   current_check_date, suitable_slots, slots_found_this_location,
                   any_slot_found_overall, escaped, closeCalls,
                   lostSlots, closedAt, perLocation>>

\* Mutant of Diagnose: the handler closes the browser before it builds and
\* dispatches its message.
DiagnoseAfterClose(here, kind) ==
    /\ pc = here
    /\ outcome' = "Failed"
    /\ exc' = "none"
    /\ IF browser # "None"
       THEN /\ closeCalls' = closeCalls + 1
            /\ closedAt' = <<Len(log), Len(sent)>>
            /\ browser' = "closed"
       ELSE UNCHANGED <<closeCalls, closedAt, browser>>
    /\ log' = IF page THEN Append(log, Entry("page_url", "ok", url)) ELSE log
    /\ \E delivered \in BOOLEAN :
         sent' = send_telegram_notification(Message(kind, i, <<>>, LastUrl), delivered)
    /\ pc' = "finally"
    /\ UNCHANGED <<cfg, escaping, today, playwright, page, url, i, slot_labels, k,
                   current_check_date, suitable_slots, slots_found_this_location,
                   any_slot_found_overall, escaped, lostSlots, perLocation>>

\* lines 243-246 and 248-253: one diagnostic message, dispatched once.
Diagnose(here, kind) ==
    /\ pc = here
    /\ outcome' = "Failed"
    /\ exc' = "none"
    /\ log' = IF page THEN Append(log, Entry("page_url", "ok", url)) ELSE log
    /\ \E delivered \in BOOLEAN :
         sent' = send_telegram_notification(Message(kind, i, <<>>, LastUrl), delivered)
    /\ pc' = "finally"
    /\ UNCHANGED <<cfg, escaping, today, playwright, browser, page, url, i, slot_labels, k,
                   current_check_date, suitable_slots, slots_found_this_location,
                   any_slot_found_overall, escaped, closeCalls,
                   lostSlots, closedAt, perLocation>>

\* lines 242-246
ExceptTimeout == Diagnose("except_timeout", "timeout")

\* lines 247-253
ExceptException == Diagnose("except_exception", "unexpected")

\* Mutant of Finally: browser.close() as the last statement of the try body, not
\* in a finally clause.
FinallyClosesAfterSuccessOnly ==
    /\ pc = "finally"
    /\ IF browser # "None" /\ outcome = "Success"
       THEN /\ closeCalls' = closeCalls + 1
            /\ closedAt' = <<Len(log), Len(sent)>>
            /\ browser' = "closed"
            /\ exc' \in {exc, "error"}
       ELSE UNCHANGED <<closeCalls, closedAt, browser, exc>>
    /\ pc' = "with_exit"
    /\ UNCHANGED <<cfg, escaping, today, playwright, page, url, i, slot_labels, k,
                   current_check_date, suitable_slots, slots_found_this_location,
                   any_slot_found_overall, outcome, escaped, log, sent, perLocation,
                   lostSlots>>

\* lines 254-256: browser.close() may itself raise.
Finally ==
    /\ pc = "finally"
    /\ IF browser # "None"
       THEN /\ closeCalls' = closeCalls + 1
            /\ closedAt' = <<Len(log), Len(sent)>>
            /\ browser' = "closed"
            /\ exc' \in {exc, "error"}
       ELSE UNCHANGED <<closeCalls, closedAt, browser, exc>>
    /\ pc' = "with_exit"
    /\ UNCHANGED <<cfg, escaping, today, playwright, page, url, i, slot_labels, k,
                   current_check_date, suitable_slots, slots_found_this_location,
                   any_slot_found_overall, outcome, escaped, log, sent, perLocation,
                   lostSlots>>

\* leaving the `with` of line 132, then line 257 or the exception going on up
WithExit ==
    /\ pc = "with_exit"
    /\ playwright' = "stopped"
    /\ escaped' = (exc # "none")
    /\ pc' = "done"
    /\ UNCHANGED <<cfg, escaping, today, browser, page, url, i, slot_labels, k,
                   current_check_date, suitable_slots, slots_found_this_location,
                   any_slot_found_overall, exc, outcome, log, sent, closeCalls,
                   lostSlots, closedAt, perLocation>>

Next ==
    \/ CheckSecrets \/ SetLocale \/ SyncPlaywright \/ Launch \/ NewContext \/ NewPage
    \/ Goto \/ ClickContinuePage1 \/ WaitTerms \/ WaitAccept \/ ClickAccept
    \/ WaitPage2 \/ FillDlNumber \/ FillContactName \/ FillContactPhone
    \/ ClickTestTypeTrigger \/ ClickTestTypeCar \/ PausePage2 \/ ClickContinuePage2
    \/ WaitPage3 \/ ClickContinuePage3 \/ WaitPage4
    \/ ForLocation \/ SiteRedirect \/ CheckUrl \/ WaitPage4Again
    \/ ClickRegionTrigger \/ ClickLocationOption \/ PausePage4 \/ ClickContinuePage4
    \/ WaitPage5 \/ TableWait \/ AllLabels \/ ReadLabel \/ EndOfLabels \/ IfSlots
    \/ ClickChangeLocation \/ WaitChangeLocation
    \/ ExceptTimeout \/ ExceptException \/ Finally \/ WithExit

Spec == Init /\ [][Next]_vars

(***************************************************************************)
(* check_slots_on_page5() taken alone: from its first call at line 219,    *)
(* after a navigation in which nothing failed, to its return or exception, *)
(* over pages whose labels are of every form.                              *)
(***************************************************************************)
\* The calls of lines 134-217 up to the first slot check, each with the page it
\* left the browser on and the loop index.
NavigationSteps ==
    << <<"launch", "about:blank", 0>>, <<"new_context", "about:blank", 0>>,
       <<"new_page", "about:blank", 0>>, <<"goto", START_URL, 0>>,
       <<"click_continue1", TERMS_PAGE_URL_FRAGMENT, 0>>,
       <<"wait_terms", TERMS_PAGE_URL_FRAGMENT, 0>>,
       <<"wait_accept", TERMS_PAGE_URL_FRAGMENT, 0>>,
       <<"click_accept", PAGE2_URL_FRAGMENT, 0>>, <<"wait_page2", PAGE2_URL_FRAGMENT, 0>>,
       <<"fill_dl", PAGE2_URL_FRAGMENT, 0>>, <<"fill_name", PAGE2_URL_FRAGMENT, 0>>,
       <<"fill_phone", PAGE2_URL_FRAGMENT, 0>>,
       <<"click_test_type", PAGE2_URL_FRAGMENT, 0>>,
       <<"click_car", PAGE2_URL_FRAGMENT, 0>>, <<"pause2", PAGE2_URL_FRAGMENT, 0>>,
       <<"click_continue2", PAGE3_URL_FRAGMENT, 0>>,
       <<"wait_page3", PAGE3_URL_FRAGMENT, 0>>,
       <<"click_continue3", PAGE4_URL_FRAGMENT, 0>>,
       <<"wait_page4", PAGE4_URL_FRAGMENT, 0>>, <<"page_url", PAGE4_URL_FRAGMENT, 1>>,
       <<"click_region", PAGE4_URL_FRAGMENT, 1>>,
       <<"click_location", PAGE4_URL_FRAGMENT, 1>>, <<"pause4", PAGE4_URL_FRAGMENT, 1>>,
       <<"click_continue4", PAGE5_URL_FRAGMENT, 1>>,
       <<"wait_page5", PAGE5_URL_FRAGMENT, 1>> >>

NavigationLog ==
    [n \in 1..Len(NavigationSteps) |->
        [op |-> NavigationSteps[n][1], loc |-> NavigationSteps[n][3], res |-> "ok",
         url |-> NavigationSteps[n][2]]]

\* run_bot at line 219 for the first location.
InitSlots ==
    /\ cfg = [s \in SecretNames |-> "set"]
    /\ today \in RefDates
    /\ pc = "table_wait"
    /\ playwright = "on"
    /\ browser = "open"
    /\ page = TRUE
    /\ url = PAGE5_URL_FRAGMENT
    /\ i = 1
    /\ slot_labels = <<>>
    /\ k = 0
    /\ current_check_date = 0
    /\ suitable_slots = <<>>
    /\ slots_found_this_location = <<>>
    /\ any_slot_found_overall = FALSE
    /\ exc = "none"
    /\ outcome = "running"
    /\ escaped = FALSE
    /\ log = NavigationLog
    /\ sent = <<>>
    /\ closeCalls = 0
    /\ perLocation = <<>>
    /\ lostSlots = <<>>
    /\ closedAt = <<>>
    /\ escaping = NotEscaping

\* line 82 on a page whose labels are of any form
AllLabelsOfAnyForm == AllLabelsFrom(AnyLabelLists)

NextSlots == TableWait \/ AllLabelsOfAnyForm \/ ReadLabel \/ EndOfLabels

SpecSlots == InitSlots /\ [][NextSlots]_vars

(***************************************************************************)
(* Vocabulary of the properties.                                           *)
(***************************************************************************)
NumLocations == Len(LOCATIONS_TO_CHECK)

Ended == pc = "done"

\* The try body or a handler has been left: what remains is teardown.
PastHandlers == pc \in {"finally", "with_exit", "done"}

SessionOpened == \E a \in 1..Len(log) : log[a].op = "launch" /\ log[a].res = "ok"

IsDiagnostic(m) == m.kind \in {"timeout", "unexpected"}

IsSlotMessage(m) == m.kind = "slots"

Diagnostics == SelectSeq(sent, IsDiagnostic)

SlotMessages == SelectSeq(sent, IsSlotMessage)

\* A failure that ends the try body: any failed call except the tolerated timeout
\* of the availability-table wait.
IsFatal(e) == e.res # "ok" /\ ~(e.op = "table_wait" /\ e.res = "timeout")

FatalError == \E a \in 1..Len(log) : IsFatal(log[a])

\* The calls that act on the page; reading page.url is a query of the page handle.
IsPageAction(e) == e.op \notin {"launch", "new_context", "new_page", "page_url"}

MissingOrEmpty(s) == cfg[s] \in {"None", "empty"}

ChannelConfigured ==
    ~MissingOrEmpty("TELEGRAM_BOT_TOKEN") /\ ~MissingOrEmpty("TELEGRAM_CHAT_ID")

SkippedTerms ==
    \E a \in 1..Len(log) :
        /\ log[a].op = "click_continue1"
        /\ log[a].res = "ok"
        /\ log[a].url = PAGE2_URL_FRAGMENT

\* What a message says, without whether it was delivered.
Said(m) == [kind |-> m.kind, loc |-> m.loc, slots |-> m.slots]

RECURSIVE SlotMessagesDue(_)
\* The slot messages due for the first n completed slot checks, in location order.
SlotMessagesDue(n) ==
    IF n = 0 THEN <<>>
    ELSE IF perLocation[n] # <<>>
         THEN Append(SlotMessagesDue(n - 1),
                     [kind |-> "slots", loc |-> n, slots |-> perLocation[n]])
         ELSE SlotMessagesDue(n - 1)

SaidBy(msgs) == [a \in 1..Len(msgs) |-> Said(msgs[a])]

(***************************************************************************)
(* C1 ... C10                                                              *)
(***************************************************************************)

\* C1: a run that launched the browser has closed it (browser.close() called once,
\* the playwright context stopped) by the time run_bot is left, whether the run
\* succeeded, timed out or failed otherwise, and whatever the dispatches returned.
C1_SessionClosedOnEveryExit ==
    (Ended /\ SessionOpened) =>
        /\ browser = "closed"
        /\ closeCalls = 1
        /\ playwright = "stopped"

\* A failed run whose diagnostic was not delivered, with the session closed.
C1_Witness ==
    /\ Ended /\ SessionOpened /\ outcome = "Failed"
    /\ Len(sent) = 1 /\ ~sent[1].ok
    /\ browser = "closed"

\* C2: once a fatal error has been handled, exactly one diagnostic has been
\* attempted (never two at any time), and the run ends with the session closed.
C2_ExactlyOneDiagnostic ==
    /\ Len(Diagnostics) <= 1
    /\ (FatalError /\ PastHandlers) => Len(Diagnostics) = 1
    /\ (FatalError /\ ~PastHandlers) => Len(Diagnostics) = 0
    /\ (FatalError /\ Ended /\ SessionOpened) => browser = "closed"

\* A fatal error while the second location is processed, the diagnostic undelivered.
C2_Witness ==
    /\ Ended /\ FatalError /\ i = NumLocations
    /\ Len(Diagnostics) = 1 /\ ~Diagnostics[1].ok
    /\ browser = "closed"

\* C3 as stated: no run sends both a slot message and a diagnostic message.
C3_NeverSlotAndDiagnostic ==
    Ended => (SlotMessages = <<>> \/ Diagnostics = <<>>)

\* C3 as amended: a run's messages are the slot messages due for the locations
\* whose slot check completed, in order, followed by one diagnostic exactly when
\* the run failed; a failed run may have sent slot messages before.
C3_SlotMessagesThenDiagnostic ==
    Ended /\ outcome \in {"Success", "Failed"} =>
        /\ SaidBy(SlotMessages) = SlotMessagesDue(Len(perLocation))
        /\ Len(Diagnostics) = (IF outcome = "Failed" THEN 1 ELSE 0)
        /\ sent = SlotMessages \o Diagnostics

\* A failed run that sent a slot message for the first location and a diagnostic.
C3_Witness ==
    /\ Ended /\ outcome = "Failed"
    /\ Len(SlotMessages) = 1 /\ Len(Diagnostics) = 1

\* C4: whenever an error leaves run_bot, a notification has been attempted.
C4_NoErrorEscapesUnnotified ==
    (Ended /\ escaped) => Len(sent) >= 1

\* C5: with a secret missing or empty, no session is opened and no page operation
\* made, and the run ends having attempted one configuration diagnostic exactly
\* when both channel secrets are present.
C5_ConfigAbort ==
    (\E s \in SecretNames : MissingOrEmpty(s)) =>
        /\ log = <<>> /\ playwright = "off" /\ browser = "None"
        /\ Ended =>
            /\ outcome = "ConfigAbort"
            /\ Len(sent) = (IF ChannelConfigured THEN 1 ELSE 0)
            /\ \A a \in 1..Len(sent) : sent[a].kind = "config"

\* An empty licence number with the channel configured: aborted, one attempt.
C5_Witness ==
    /\ Ended /\ cfg["USER_DL_NUMBER"] = "empty" /\ ChannelConfigured
    /\ outcome = "ConfigAbort" /\ Len(sent) = 1 /\ log = <<>>

\* C6 as stated: after the Welcome click lands on the Details page, the wait for
\* the Terms page does not time out.
C6_SkippedTermsTolerated ==
    SkippedTerms =>
        \A a \in 1..Len(log) : log[a].op = "wait_terms" => log[a].res # "timeout"

\* C6 as amended: after the Welcome click lands on the Details page, the wait for
\* the Terms page fails, nothing of the Terms or Details page is operated, and
\* the run ends Failed with one diagnostic.
C6_SkippedTermsFails ==
    SkippedTerms =>
        /\ \A a \in 1..Len(log) :
              /\ log[a].op = "wait_terms" => log[a].res # "ok"
              /\ log[a].op \notin {"wait_accept", "click_accept", "wait_page2", "fill_dl",
                                   "fill_name", "fill_phone", "click_test_type",
                                   "click_car", "click_continue2"}
        /\ outcome # "Success"
        /\ Ended => (outcome = "Failed" /\ Len(Diagnostics) = 1)

\* The Terms page was skipped, the wait timed out and the run ended Failed.
C6_Witness ==
    /\ SkippedTerms /\ Ended /\ outcome = "Failed"
    /\ \E a \in 1..Len(log) : log[a].op = "wait_terms" /\ log[a].res = "timeout"
    /\ Diagnostics # <<>> /\ Diagnostics[1].kind = "timeout"

\* C7: a run that ends in Success has dispatched exactly the slot messages due
\* for the locations with a non-empty list, in location order, and nothing else,
\* whatever each dispatch returned.
C7_OneMessagePerLocationWithSlots ==
    outcome = "Success" =>
        /\ Len(perLocation) = NumLocations
        /\ SaidBy(sent) = SlotMessagesDue(NumLocations)

\* Both locations had slots, the first dispatch failed, the second was still made.
C7_Witness ==
    /\ Ended /\ outcome = "Success"
    /\ Len(sent) = 2 /\ ~sent[1].ok /\ sent[1].loc = 1 /\ sent[2].loc = 2

\* C8: a run that ends in Success with no location yielding a suitable slot has
\* made no notification call.
C8_SilentWhenNoSlots ==
    (outcome = "Success" /\ \A l \in 1..Len(perLocation) : perLocation[l] = <<>>) =>
        sent = <<>>

\* A successful run over pages that had labels, none of them suitable.
C8_Witness ==
    /\ Ended /\ outcome = "Success" /\ sent = <<>>
    /\ perLocation = <<<<>>, <<>>>>
    /\ \E a \in 1..Len(log) : log[a].op = "text_content"

\* C9: a failed operation is never made again, and after a timeout of any
\* operation but the availability-table wait no page action follows and the run
\* ends Failed.
C9_FailFast ==
    \A a \in 1..Len(log) :
        /\ log[a].res # "ok" =>
              \A b \in (a + 1)..Len(log) :
                  ~(log[b].op = log[a].op /\ log[b].loc = log[a].loc)
        /\ (log[a].res = "timeout" /\ log[a].op # "table_wait") =>
              /\ \A b \in (a + 1)..Len(log) : ~IsPageAction(log[b])
              /\ outcome \in {"running", "Failed"}
              /\ PastHandlers => outcome = "Failed"

\* A label read at the second location timed out and the run ended Failed.
C9_Witness ==
    /\ Ended /\ outcome = "Failed"
    /\ \E a \in 1..Len(log) :
          log[a].op = "text_content" /\ log[a].res = "timeout" /\ log[a].loc = 2

\* C10: a timeout of the availability-table wait gives that location an empty
\* list and no message, is followed by the change-location click when a location
\* remains and by nothing when it was the last, and the run then ends in Success.
C10_TableTimeoutIsNoSlots ==
    \A a \in 1..Len(log) :
        (log[a].op = "table_wait" /\ log[a].res = "timeout") =>
            LET l == log[a].loc IN
            /\ Len(perLocation) >= l /\ perLocation[l] = <<>>
            /\ \A m \in 1..Len(sent) : ~(sent[m].kind = "slots" /\ sent[m].loc = l)
            /\ a < Len(log) => (l < NumLocations /\ log[a + 1].op = "click_change")
            /\ a = Len(log) => (exc = "none" \/ pc \in {"with_exit", "done"})
            /\ (a = Len(log) /\ PastHandlers) => (l = NumLocations /\ outcome = "Success")

\* The table never showed for the first location; the run went on and succeeded.
C10_Witness ==
    /\ Ended /\ outcome = "Success"
    /\ \E a \in 1..Len(log) :
          /\ log[a].op = "table_wait" /\ log[a].res = "timeout" /\ log[a].loc = 1
          /\ a < Len(log) /\ log[a + 1].op = "click_change" /\ log[a + 1].res = "ok"

(***************************************************************************)
(* send_telegram_notification() taken alone, with both channel secrets     *)
(* set, on every message of up to MaxText characters: from line 55 to the  *)
(* request of line 62.                                                     *)
(***************************************************************************)
MaxText == 3

\* A letter, the backslash, and reserved characters from the start, the middle and
\* the end of md_reserved.
Chars == {"a", "\\", "_", "*", "!"}

Texts == UNION {[1..n -> Chars] : n \in 0..MaxText}

\* line 55
InitEscape ==
    /\ cfg = [s \in SecretNames |-> "set"]
    /\ \E m \in Texts : escaping = [message |-> m, escaped_message |-> m, char |-> 1]
    /\ today \in RefDates
    /\ pc = "escape"
    /\ playwright = "off"
    /\ browser = "None"
    /\ page = FALSE
    /\ url = "about:blank"
    /\ i = 0
    /\ slot_labels = <<>>
    /\ k = 0
    /\ current_check_date = 0
    /\ suitable_slots = <<>>
    /\ slots_found_this_location = <<>>
    /\ any_slot_found_overall = FALSE
    /\ exc = "none"
    /\ outcome = "running"
    /\ escaped = FALSE
    /\ log = <<>>
    /\ sent = <<>>
    /\ closeCalls = 0
    /\ perLocation = <<>>
    /\ lostSlots = <<>>
    /\ closedAt = <<>>

\* lines 56-57: one turn of the loop over md_reserved
EscapeChar ==
    /\ pc = "escape"
    /\ escaping.char <= Len(md_reserved)
    /\ escaping' = [escaping EXCEPT
                        !.escaped_message = Replace(@, md_reserved[escaping.char]),
                        !.char = @ + 1]
    /\ UNCHANGED <<cfg, today, pc, playwright, browser, page, url, i, slot_labels, k,
                   current_check_date, suitable_slots, slots_found_this_location,
                   any_slot_found_overall, exc, outcome, escaped, log, sent, closeCalls,
                   perLocation, lostSlots, closedAt>>

\* lines 59-69: the request carries escaped_message as its text and is delivered
\* or not.
Post ==
    /\ pc = "escape"
    /\ escaping.char > Len(md_reserved)
    /\ \E delivered \in BOOLEAN :
          sent' = Append(sent, [text |-> escaping.escaped_message, ok |-> delivered])
    /\ pc' = "posted"
    /\ UNCHANGED <<cfg, escaping, today, playwright, browser, page, url, i, slot_labels,
                   k, current_check_date, suitable_slots, slots_found_this_location,
                   any_slot_found_overall, exc, outcome, escaped, log, closeCalls,
                   perLocation, lostSlots, closedAt>>

NextEscape == EscapeChar \/ Post

SpecEscape == InitEscape /\ [][NextEscape]_vars

(***************************************************************************)
(* C11 ... C20                                                             *)
(***************************************************************************)
Range(seq) == {seq[n] : n \in 1..Len(seq)}

Occurrences(seq, x) == Cardinality({n \in 1..Len(seq) : seq[n] = x})

\* The labels read so far in the slot check under way, trimmed.
TrimmedRead == [n \in 1..(k - 1) |-> strip(slot_labels[n])]

\* C11: in the slot check, a label that parses to day d has been collected if and
\* only if r <= d <= r + 13 for the reference date r of the check, and as often
\* as it was read (the same text and date always get the same answer).
C11_WindowInclusive ==
    pc = "read_label" =>
        \A n \in 1..(k - 1) :
            LET t == TrimmedRead[n]
                r == current_check_date
            IN  t.form \in {"date", "hour_unpadded", "day_unpadded", "ampm_lower"} =>
                  /\ (t \in Range(suitable_slots)) <=> (r <= t.day /\ t.day <= r + 13)
                  /\ Occurrences(suitable_slots, t) \in {0, Occurrences(TrimmedRead, t)}

\* Reference date 1: the label of day 14 (r + 13) was collected, that of day 15
\* (r + 14) was not.
C11_Witness ==
    /\ pc = "read_label" /\ k = 3 /\ current_check_date = 1
    /\ slot_labels = <<[ws |-> FALSE, form |-> "date", day |-> 14],
                       [ws |-> FALSE, form |-> "date", day |-> 15]>>
    /\ suitable_slots = <<[ws |-> FALSE, form |-> "date", day |-> 14]>>

\* C12 as stated: a label whose text is not of the exact literal form (padded day
\* and hour, upper-case AM/PM) is never collected.
C12_OnlyExactLiteralCollected ==
    pc = "read_label" =>
        \A n \in 1..(k - 1) :
            TrimmedRead[n].form # "date" => TrimmedRead[n] \notin Range(suitable_slots)

\* C12 as amended: a text strptime rejects (empty, wrong separators, abbreviated
\* names, 24-hour time, any other text) is dropped and no failure comes from the
\* parser; a text with an unpadded day or hour or a lower-case am/pm is parsed and
\* collected when its date is in the window.
C12_RejectedTextsDropped ==
    /\ \A a \in 1..Len(log) :
          log[a].res # "ok" => log[a].op \in {"table_wait", "all_labels", "text_content"}
    /\ pc = "read_label" =>
          \A n \in 1..(k - 1) :
              LET t == TrimmedRead[n]
                  r == current_check_date
              IN  /\ t.form \in {"blank", "separators", "names_abbreviated", "hour24",
                                 "junk"} => t \notin Range(suitable_slots)
                  /\ (/\ t.form \in {"hour_unpadded", "day_unpadded", "ampm_lower"}
                      /\ r <= t.day /\ t.day <= r + 13) => t \in Range(suitable_slots)

\* A 24-hour text was dropped and a text with an unpadded hour collected.
C12_Witness ==
    /\ pc = "read_label" /\ k = 3 /\ current_check_date = 1
    /\ slot_labels = <<[ws |-> FALSE, form |-> "hour24", day |-> 14],
                       [ws |-> FALSE, form |-> "hour_unpadded", day |-> 1]>>
    /\ suitable_slots = <<[ws |-> FALSE, form |-> "hour_unpadded", day |-> 1]>>

\* The trimmed texts, among the first n labels of a page, that parse to a date of
\* the 14 days from r on: in page order, duplicates kept.
RECURSIVE TrimmedSuitable(_, _, _)
TrimmedSuitable(labels, n, r) ==
    IF n = 0 THEN <<>>
    ELSE LET t == [ws |-> FALSE, form |-> labels[n].form, day |-> labels[n].day]
             rest == TrimmedSuitable(labels, n - 1, r)
         IN  IF /\ t.form \in {"date", "hour_unpadded", "day_unpadded", "ampm_lower"}
                /\ r <= t.day /\ t.day <= r + 13
             THEN Append(rest, t)
             ELSE rest

\* C17: the list check_slots_on_page5 returns is the subsequence, in page order
\* and with duplicates kept, of the trimmed label texts that parse and fall in the
\* window; a check that found no table or no label returns the empty list.
C17_ReturnedListIsTrimmedSubsequence ==
    [][/\ (pc = "read_label" /\ pc' = "if_slots") =>
            /\ slots_found_this_location' =
                  TrimmedSuitable(slot_labels, Len(slot_labels), current_check_date)
            /\ perLocation' = Append(perLocation, slots_found_this_location')
       /\ (pc \in {"table_wait", "all_labels"} /\ pc' = "if_slots") =>
            slots_found_this_location' = <<>>
       /\ (pc = "read_label" /\ pc' = "read_label") =>
            suitable_slots' = TrimmedSuitable(slot_labels, k, current_check_date)]_vars

\* Returned after the last label was read: the same slot text twice, trimmed.
C17_Witness ==
    /\ pc = "if_slots"
    /\ slots_found_this_location = <<[ws |-> FALSE, form |-> "date", day |-> 14],
                                     [ws |-> FALSE, form |-> "date", day |-> 14]>>
    /\ perLocation = <<slots_found_this_location>>
    /\ log[Len(log)].op = "text_content"

\* The reserved characters of the channel's markup.
Reserved ==
    {"_", "*", "[", "]", "(", ")", "~", "GRAVE", ">", "#", "+", "-", "=", "|", "{", "}",
     ".", "!"}

\* Where the n-th character of m stands in a text that has one character added
\* before each reserved character of m.
PlaceOf(m, n) == n + Cardinality({j \in 1..n : m[j] \in Reserved})

StateOfWait ==
    [op \in {"goto", "wait_terms", "wait_page2", "wait_page3", "wait_page4",
             "wait_page4_again", "wait_change", "wait_page5"} |->
        CASE op = "goto" -> 1
          [] op = "wait_terms" -> 2
          [] op = "wait_page2" -> 3
          [] op = "wait_page3" -> 4
          [] op \in {"wait_page4", "wait_page4_again", "wait_change"} -> 5
          [] op = "wait_page5" -> 6]

\* The actions of each page.
StateOfAction ==
    [op \in {"click_continue1", "wait_accept", "click_accept", "fill_dl", "fill_name",
             "fill_phone", "click_test_type", "click_car", "pause2", "click_continue2",
             "click_continue3", "click_region", "click_location", "pause4",
             "click_continue4", "table_wait", "all_labels", "text_content",
             "click_change"} |->
        CASE op = "click_continue1" -> 1
          [] op \in {"wait_accept", "click_accept"} -> 2
          [] op \in {"fill_dl", "fill_name", "fill_phone", "click_test_type", "click_car",
                     "pause2", "click_continue2"} -> 3
          [] op = "click_continue3" -> 4
          [] op \in {"click_region", "click_location", "pause4", "click_continue4"} -> 5
          [] op \in {"table_wait", "all_labels", "text_content", "click_change"} -> 6]

WaitsBefore(a) == {b \in 1..(a - 1) : log[b].op \in DOMAIN StateOfWait}

LastOf(S) == CHOOSE b \in S : \A c \in S : c <= b

\* C14: every action on a page comes after the wait for that page's signature,
\* that wait succeeded and no other wait came in between; the successful waits
\* follow the order Welcome, Terms, DetailsEntry, Confirmation, LocationSelection,
\* SlotSelection (back to LocationSelection for the next location); after a wait
\* that failed, no action of any page and no further wait is performed.
C14_PagesInOrderBehindWaits ==
    \A a \in 1..Len(log) :
        LET e == log[a] IN
        /\ e.op \in DOMAIN StateOfAction =>
              /\ WaitsBefore(a) # {}
              /\ log[LastOf(WaitsBefore(a))].res = "ok"
              /\ StateOfWait[log[LastOf(WaitsBefore(a))].op] = StateOfAction[e.op]
        /\ e.op \in DOMAIN StateOfWait =>
              /\ WaitsBefore(a) = {} => e.op = "goto"
              /\ WaitsBefore(a) # {} =>
                    LET before == StateOfWait[log[LastOf(WaitsBefore(a))].op]
                        now == StateOfWait[e.op]
                    IN  \/ now = before + 1
                        \/ before = 6 /\ now = 5
                        \/ before = 5 /\ now = 5 /\ e.op = "wait_page4_again"
              /\ e.res # "ok" =>
                    \A c \in (a + 1)..Len(log) :
                        log[c].op \notin DOMAIN StateOfAction \cup DOMAIN StateOfWait

\* A run through all six pages and back to LocationSelection for the second
\* location, ended with success.
C14_Witness ==
    /\ pc = "done" /\ outcome = "Success"
    /\ \E a \in 1..Len(log) : log[a].op = "wait_change" /\ log[a].res = "ok"
    /\ \E a \in 1..Len(log) : log[a].op = "wait_terms" /\ log[a].res = "ok"

\* A run whose wait for the Confirmation page timed out.
C14_WitnessTimeout ==
    /\ pc = "done" /\ outcome = "Failed"
    /\ log[Len(log)].op = "page_url"
    /\ log[Len(log) - 1].op = "wait_page3" /\ log[Len(log) - 1].res = "timeout"

\* The loop indices at which op was called, in the order of the calls.
LocsOf(op) ==
    LET calls == SelectSeq(log, LAMBDA e : e.op = op)
    IN  [a \in 1..Len(calls) |-> calls[a].loc]

UpTo(n) == [a \in 1..n |-> a]

\* C15: a run that ended in success selected the region once for each of the n
\* locations, in order, made one slot check for each, clicked the change-location
\* control once after each location but the last, met no failure but a tolerated
\* table timeout, and made its last call on the page in the last location's slot
\* check.
C15_EachLocationOnce ==
    outcome = "Success" =>
        /\ LocsOf("click_region") = UpTo(NumLocations)
        /\ LocsOf("click_location") = UpTo(NumLocations)
        /\ LocsOf("table_wait") = UpTo(NumLocations)
        /\ Len(perLocation) = NumLocations
        /\ LocsOf("click_change") = UpTo(NumLocations - 1)
        /\ LocsOf("wait_change") = UpTo(NumLocations - 1)
        /\ ~FatalError
        /\ log[Len(log)].op \in {"table_wait", "all_labels", "text_content"}
        /\ log[Len(log)].loc = NumLocations

\* The try body just completed: both locations checked, slots at the second.
C15_Witness ==
    /\ pc = "finally" /\ outcome = "Success" /\ browser = "open"
    /\ Len(perLocation) = NumLocations
    /\ perLocation[NumLocations] # <<>>

\* C16: the region control is used only right after page.url was seen to be the
\* LocationSelection page or right after a successful wait for that page; a
\* page.url seen to be another page at the start of an iteration is followed by that
\* wait and by nothing else; a failure of that wait ends the run as failed, with no
\* use of the region control after it.
C16_RegionOnlyOnLocationSelection ==
    /\ pc = "click_region" => url = PAGE4_URL_FRAGMENT
    /\ \A a \in 1..Len(log) :
          /\ log[a].op = "click_region" =>
                /\ a > 1
                /\ \/ /\ log[a - 1].op = "page_url"
                      /\ log[a - 1].url = PAGE4_URL_FRAGMENT
                   \/ /\ log[a - 1].op = "wait_page4_again"
                      /\ log[a - 1].res = "ok"
                      /\ log[a - 1].url = PAGE4_URL_FRAGMENT
                /\ log[a - 1].loc = log[a].loc
          /\ (log[a].op = "page_url" /\ log[a].url # PAGE4_URL_FRAGMENT /\ a < Len(log)) =>
                log[a + 1].op = "wait_page4_again"
          /\ (log[a].op = "wait_page4_again" /\ log[a].res # "ok") =>
                /\ \A c \in (a + 1)..Len(log) : log[c].op = "page_url"
                /\ outcome # "Success"
                /\ PastHandlers => outcome = "Failed"

\* At the second location the page was not LocationSelection, the wait for it
\* succeeded and the region control was then used.
C16_Witness ==
    \E a \in 2..(Len(log) - 1) :
        /\ log[a - 1].op = "page_url" /\ log[a - 1].url # PAGE4_URL_FRAGMENT
        /\ log[a].op = "wait_page4_again" /\ log[a].res = "ok" /\ log[a].loc = 2
        /\ log[a + 1].op = "click_region" /\ log[a + 1].res = "ok"

\* The slot checks whose result has been taken up by lines 221-229.
ChecksReported == IF pc = "if_slots" THEN Len(perLocation) - 1 ELSE Len(perLocation)

\* C18: in every state the slot messages posted so far are, in location order,
\* those of the locations with a non-empty list among the completed slot checks
\* (the step of lines 221-229 follows the check before any other call, so the
\* message is out before the change-location click and before a later location is
\* selected), and a run posts at most one message more than there are locations.
C18_SlotMessagesTrackCompletedChecks ==
    /\ SaidBy(SlotMessages) = SlotMessagesDue(ChecksReported)
    /\ Len(sent) <= NumLocations + 1
    /\ pc \in {"click_change", "wait_change", "for_location"} => ChecksReported = i
    /\ pc \in {"check_url", "wait_page4_again", "click_region"} => ChecksReported = i - 1
    /\ \A a \in 1..Len(log) :
          log[a].op \in {"click_change", "click_region"} =>
              \A l \in 1..Len(perLocation) :
                  (l < log[a].loc \/ (l = log[a].loc /\ log[a].op = "click_change")) =>
                      (perLocation[l] # <<>> =>
                          \E m \in 1..Len(sent) : IsSlotMessage(sent[m]) /\ sent[m].loc = l)

\* The first location's message is out and the change-location click is next.
C18_Witness ==
    /\ pc = "click_change" /\ i = 1
    /\ Len(perLocation) = 1 /\ perLocation[1] # <<>>
    /\ Len(sent) = 1 /\ IsSlotMessage(sent[1]) /\ sent[1].loc = 1

\* C19: a slot message is posted for a location only with the list its completed
\* check returned; after a timeout of a label read at location l the check of l has
\* no result, no slot message of l or of a later location exists, nothing but the
\* handler's page.url read follows, and the run ends Failed with the timeout
\* diagnostic as its one diagnostic and its last message.
C19_ReadTimeoutDiscardsLocation ==
    /\ \A m \in 1..Len(sent) :
          IsSlotMessage(sent[m]) =>
              /\ sent[m].loc <= Len(perLocation)
              /\ sent[m].slots = perLocation[sent[m].loc]
    /\ \A a \in 1..Len(log) :
          (log[a].op = "text_content" /\ log[a].res = "timeout") =>
              LET l == log[a].loc IN
              /\ Len(perLocation) = l - 1
              /\ suitable_slots = <<>>
              /\ \A m \in 1..Len(sent) : IsSlotMessage(sent[m]) => sent[m].loc < l
              /\ \A c \in (a + 1)..Len(log) : log[c].op = "page_url"
              /\ outcome # "Success"
              /\ PastHandlers =>
                    /\ outcome = "Failed"
                    /\ Len(Diagnostics) = 1
                    /\ sent[Len(sent)].kind = "timeout"

\* The first label of the first location was suitable, the read of the second
\* timed out: the run ended with the diagnostic alone.
C19_Witness ==
    /\ Ended /\ outcome = "Failed"
    /\ lostSlots # <<>>
    /\ \E a \in 1..Len(log) :
          log[a].op = "text_content" /\ log[a].res = "timeout" /\ log[a].loc = 1
    /\ Len(sent) = 1 /\ sent[1].kind = "timeout"

\* C20: browser.close() is called at most once; once it has been called no call
\* on the page or browser and no dispatch is made; in a failed run the diagnostic,
\* with its page.url read, was made before the close.
C20_ClosedOnceAndLast ==
    /\ closeCalls <= 1
    /\ closeCalls = 1 <=> closedAt # <<>>
    /\ closedAt # <<>> =>
          /\ browser = "closed"
          /\ Len(log) = closedAt[1]
          /\ Len(sent) = closedAt[2]
          /\ outcome = "Failed" =>
                /\ Len(Diagnostics) = 1
                /\ sent[Len(sent)] = Diagnostics[1]
                /\ page => /\ log[Len(log)].op = "page_url"
                           /\ sent[Len(sent)].url = log[Len(log)].url

\* A failed run after its teardown: the diagnostic carries the URL read just
\* before the close.
C20_Witness ==
    /\ Ended /\ outcome = "Failed" /\ closeCalls = 1
    /\ closedAt = <<Len(log), Len(sent)>>
    /\ log[Len(log)].op = "page_url"
    /\ sent[Len(sent)].url = PAGE5_URL_FRAGMENT

====
